---- MODULE Spec2Model ----
(***************************************************************************)
(* Model of backend/api_server.py: the job registry entry of one search    *)
(* job, run_job, DiscoveryEngine (run, _search_location, _process_place,   *)
(* _sorted), PlacesClient and the candidate validators.                    *)
(*                                                                         *)
(* Text that the code inspects (websites, phones, e-mails, names,          *)
(* addresses) is a sequence of character codes, so that lower(), replace(),*)
(* startswith(), the regular-expression searches and the sort key are      *)
(* computed the way the code computes them.  Text that the code only       *)
(* copies or compares for equality (keywords, place ids, status values,    *)
(* stop reasons) is a TLA+ string.                                         *)
(***************************************************************************)
EXTENDS Integers, Sequences, FiniteSets, TLC

\* ------------------------------------------------------------------ bounds
MaxKeywords == 2
MaxCities == 2
MaxMinResults == 2
MaxPageLen == 2
MaxPlaces == 2
MaxPages == 2

\* ------------------------------------------------------------ text helpers
Range(s) == {s[i] : i \in DOMAIN s}

Min2(a, b) == IF a <= b THEN a ELSE b

\* s[from ..] (1-based), the empty text when from is past the end
Drop(s, from) == IF from > Len(s) THEN <<>> ELSE SubSeq(s, from, Len(s))

\* s[.. upto]
Take(s, upto) == IF upto <= 0 THEN <<>> ELSE SubSeq(s, 1, Min2(upto, Len(s)))

\* str.startswith
StartsWith(s, p) == Len(p) <= Len(s) /\ SubSeq(s, 1, Len(p)) = p

\* str.endswith
EndsWith(s, p) == Len(p) <= Len(s) /\ SubSeq(s, Len(s) - Len(p) + 1, Len(s)) = p

\* the positions at which p occurs in s
Occurrences(s, p) == {i \in 1..(Len(s) - Len(p) + 1) : SubSeq(s, i, i + Len(p) - 1) = p}

\* `p in s`, and re.search of a pattern without metacharacters
Contains(s, p) == Occurrences(s, p) # {}

SetMin(S) == CHOOSE x \in S : \A y \in S : x <= y

\* str.replace(p, ""): every non-overlapping occurrence, left to right
RECURSIVE Remove(_, _)
Remove(s, p) ==
    IF Occurrences(s, p) = {} THEN s
    ELSE LET i == SetMin(Occurrences(s, p))
         IN Take(s, i - 1) \o Remove(Drop(s, i + Len(p)), p)

\* str.lower on ASCII
LowerChar(c) == IF c \in 65..90 THEN c + 32 ELSE c

Lower(s) == [i \in DOMAIN s |-> LowerChar(s[i])]

IsSpace(c) == c \in {32, 9, 10, 13, 11, 12}

\* str.strip
RECURSIVE LStrip(_)
LStrip(s) == IF s # <<>> /\ IsSpace(Head(s)) THEN LStrip(Tail(s)) ELSE s

RECURSIVE RStrip(_)
RStrip(s) == IF s # <<>> /\ IsSpace(s[Len(s)]) THEN RStrip(Take(s, Len(s) - 1)) ELSE s

Strip(s) == RStrip(LStrip(s))

\* s < t in Python's string order (code points, a proper prefix first)
RECURSIVE StrLess(_, _)
StrLess(s, t) ==
    IF t = <<>> THEN FALSE
    ELSE IF s = <<>> THEN TRUE
    ELSE IF Head(s) # Head(t) THEN Head(s) < Head(t)
    ELSE StrLess(Tail(s), Tail(t))

\* dict.get(k, default)
Get(d, k, default) == IF k \in DOMAIN d THEN d[k] ELSE default

EmptyDict == [k \in {} |-> <<>>]

\* ------------------------------------------------------------ text values
T_http == <<104, 116, 116, 112>>              \* "http"
T_https_slashes == <<104, 116, 116, 112, 115, 58, 47, 47>>   \* "https://"
T_slashes == <<47, 47>>                       \* "//"
T_www == <<119, 119, 119, 46>>                \* "www."
T_555 == <<53, 53, 53>>                       \* "555"
T_at == <<64>>                                \* "@"

\* The websites of the two places: two spellings of one domain
SiteWwwA == <<104, 116, 116, 112, 58, 47, 47, 119, 119, 119, 46, 97, 46, 99, 111>>  \* "http://www.a.co"
SiteUpperA == <<104, 116, 116, 112, 115, 58, 47, 47, 65, 46, 99, 111, 47, 120>>     \* "https://A.co/x"

PhoneReal == <<56, 54, 55, 45, 53, 51, 48, 57>>   \* "867-5309"
PhoneFake == <<53, 53, 53, 45, 48, 49, 48, 48>>   \* "555-0100"

AddrFormatted == <<49, 32, 69, 108, 109, 32, 83, 116>>   \* "1 Elm St"
AddrVicinity == <<82, 101, 110, 111>>                      \* "Reno"

EmailReal == <<105, 64, 97, 46, 99, 111>>                  \* "i@a.co"
EmailFake == <<116, 101, 115, 116, 64, 97, 46, 99, 111>>   \* "test@a.co"
PageEmails == {EmailReal, EmailFake}

\* the e-mail-looking tokens the pages of a website can hold (none for no website)
PagesFound(website) == IF website = <<>> THEN {{}} ELSE {{}, {EmailFake}, PageEmails}

NameB == <<66>>      \* "B"
NameA == <<97>>      \* "a"

KeyErrorLat == "'lat'"    \* str(KeyError('lat'))

\* ----------------------------------------------------- candidate validators
FAKE_PHONE_PATTERNS ==
    { <<53, 53, 53>>,                          \* 555
      <<49, 50, 51, 45, 52, 53, 54>>,          \* 123-456
      <<48, 48, 48, 45, 48, 48, 48>>,          \* 000-000
      <<49, 49, 49, 45, 49, 49, 49>> }         \* 111-111

FAKE_EMAIL_DOMAINS ==
    { <<101, 120, 97, 109, 112, 108, 101, 46, 99, 111, 109>>,   \* example.com
      <<116, 101, 115, 116, 46, 99, 111, 109>>,                 \* test.com
      <<100, 101, 109, 111, 46, 99, 111, 109>>,                 \* demo.com
      <<102, 97, 107, 101, 46, 99, 111, 109>>,                  \* fake.com
      <<115, 97, 109, 112, 108, 101, 46, 99, 111, 109>>,        \* sample.com
      <<100, 111, 109, 97, 105, 110, 46, 99, 111, 109>> }       \* domain.com

FAKE_EMAIL_PREFIXES ==
    { <<116, 101, 115, 116, 64>>,                    \* test@
      <<100, 101, 109, 111, 64>>,                    \* demo@
      <<101, 120, 97, 109, 112, 108, 101, 64>>,      \* example@
      <<102, 97, 107, 101, 64>>,                     \* fake@
      <<110, 111, 114, 101, 112, 108, 121, 64>> }    \* noreply@

IsDigit(c) == c \in 48..57

is_fake_phone(phone) ==
    IF phone = <<>> THEN FALSE
    ELSE LET norm == SelectSeq(phone, IsDigit)
         IN \/ Contains(norm, T_555)
            \/ (Len(norm) >= 7 /\ Cardinality(Range(norm)) = 1)
            \/ \E p \in FAKE_PHONE_PATTERNS : Contains(phone, p)

is_fake_email(email) ==
    IF email = <<>> THEN FALSE
    ELSE LET e == Lower(email)
         IN \/ \E d \in FAKE_EMAIL_DOMAINS : EndsWith(e, T_at \o d)
            \/ \E p \in FAKE_EMAIL_PREFIXES : StartsWith(e, p)

\* the variant that counts every field, empty or not
CountedAlways(f) == TRUE

\* sum(1 for f in [phone, email, website, address] if f and f.strip())
Counted(f) == f # <<>> /\ Strip(f) # <<>>

\* the variant that does not count the address
CalcCompletenessNoAddress(b) ==
    (IF Counted(b.phone_number) THEN 1 ELSE 0) + (IF Counted(b.email) THEN 1 ELSE 0)
    + (IF Counted(b.website) THEN 1 ELSE 0)

calc_completeness(b) ==
    (IF Counted(b.phone_number) THEN 1 ELSE 0) + (IF Counted(b.email) THEN 1 ELSE 0)
    + (IF Counted(b.website) THEN 1 ELSE 0) + (IF Counted(b.address) THEN 1 ELSE 0)

\* the variant that keeps the fake addresses
ExtractEmailsUnfiltered(found) == {Lower(x) : x \in found}

\* extract_emails, given the set of e-mail-looking tokens re.findall finds in a
\* page: lower-cased, de-duplicated, the fake ones dropped
extract_emails(found) == {e \in {Lower(x) : x \in found} : ~is_fake_email(e)}

\* scrape_email: the values it can return for a website whose pages hold the
\* tokens `found` (emails[0] of a list built from a set: any element); <<>>
\* stands for None (no page fetched, or no e-mail on any page)
scrape_email(website, found) ==
    IF website = <<>> \/ extract_emails(found) = {} THEN {<<>>}
    ELSE extract_emails(found)

get_stop_reason_detail(reason) ==
    CASE reason = "Target reached" -> "Found enough valid businesses to meet your target."
      [] reason = "All locations exhausted" -> "All cities searched. Try different keywords or state."
      [] reason = "API quota exceeded" -> "Google API rate limit reached. Wait and retry."
      [] reason = "" -> "Search completed."
      [] OTHER -> "Search ended"

\* --------------------------------------------------------------- _get_domain
IsSchemeChar(c) == c \in (48..57) \cup (65..90) \cup (97..122) \cup {43, 45, 46}

\* urlparse(u).netloc: the scheme is cut at the first ":" when only scheme
\* characters precede it; the netloc is what follows "//" up to "/", "?" or "#"
Netloc(u) ==
    LET colons == {i \in DOMAIN u : u[i] = 58}
        i == IF colons = {} THEN 0 ELSE SetMin(colons)
        hasScheme == i > 1 /\ \A j \in 1..(i - 1) : IsSchemeChar(u[j])
        rest == IF hasScheme THEN Drop(u, i + 1) ELSE u
        body == Drop(rest, 3)
        stops == {j \in DOMAIN body : body[j] \in {47, 63, 35}}
    IN IF ~StartsWith(rest, T_slashes) THEN <<>>
       ELSE IF stops = {} THEN body ELSE Take(body, SetMin(stops) - 1)

\* the variant that forgets .lower()
GetDomainCaseSensitive(url) ==
    IF url = <<>> THEN <<>>
    ELSE Remove(Netloc(IF StartsWith(url, T_http) THEN url ELSE T_https_slashes \o url), T_www)

\* DiscoveryEngine._get_domain; <<>> stands for both None and ''
\* (the callers only test the result for truth)
GetDomain(url) ==
    IF url = <<>> THEN <<>>
    ELSE Remove(Lower(Netloc(IF StartsWith(url, T_http) THEN url ELSE T_https_slashes \o url)), T_www)

\* ------------------------------------------------------------ external data
\* Reference data: STATE_CITIES["TX"] and ["NV"], DEFAULT_CITIES["WY"]; "ZZ" is
\* in neither
WithCoords(names) == [i \in DOMAIN names |-> [city |-> names[i], coords |-> TRUE]]

STATE_CITIES ==
    [TX |-> WithCoords(<< "Houston", "San Antonio", "Dallas", "Austin", "Fort Worth",
                          "El Paso", "Arlington", "Corpus Christi", "Plano", "Lubbock" >>),
     NV |-> WithCoords(<< "Las Vegas", "Reno" >>)]

DEFAULT_CITIES ==
    [WY |-> << [city |-> "Cheyenne", coords |-> TRUE] >>]

States == {"NV", "WY", "ZZ"}

\* Cities a caller can send in city mode (List[Dict[str, Any]]): coords says
\* whether the dict has the 'lat' and 'lng' keys
CityPool == { [city |-> "Elko", coords |-> TRUE], [city |-> "Nowhere", coords |-> FALSE] }

SeqsUpTo(S, n) == UNION {[1..k -> S] : k \in 0..n}

\* the lists of at most n distinct elements of S
DistinctSeqsUpTo(S, n) == {q \in SeqsUpTo(S, n) : \A i, j \in DOMAIN q : i # j => q[i] # q[j]}

KeywordLists == { SubSeq(<<"plumber", "roofer">> \o [i \in 1..MaxKeywords |-> "kw"], 1, k) : k \in 1..MaxKeywords }

\* The (geographyMode, state, cities) of a request: state mode without a city
\* list (cities None, kept as <<>>), city mode with an empty list, and city
\* mode with a list of distinct cities.  run() reads the state only when the
\* list is empty, so a non-empty list comes with one state.
Geographies ==
    { [geographyMode |-> "state", state |-> st, cities |-> <<>>] : st \in {"NV", "ZZ"} }
    \cup { [geographyMode |-> "city", state |-> st, cities |-> <<>>] : st \in {"WY", "ZZ"} }
    \cup { [geographyMode |-> "city", state |-> "NV", cities |-> cs] :
              cs \in DistinctSeqsUpTo(CityPool, MaxCities) \ {<<>>} }

\* SearchRequest -> the config dict start_search builds
Configs ==
    { [keywords |-> kws, geographyMode |-> g.geographyMode, state |-> g.state,
       cities |-> g.cities, minResults |-> n] :
        kws \in KeywordLists, g \in Geographies, n \in 1..MaxMinResults }

\* Search results: the place dicts a page can hold
PlaceIds == {"p1", "p2"}

Place(pid) ==
    CASE pid = "p1" -> [place_id |-> "p1", name |-> NameB]
      [] pid = "p2" -> [place_id |-> "p2", name |-> NameA, vicinity |-> AddrVicinity]
      [] OTHER -> [name |-> NameA, vicinity |-> AddrVicinity]

Places == {Place(pid) : pid \in PlaceIds \cup {""}}

\* What the provider has on file for a place: p1 a real-looking phone, a
\* formatted address and a website, p2 a fake-looking phone and a website
Directory(pid) ==
    IF pid = "p1"
    THEN [name |-> NameB, formatted_phone_number |-> PhoneReal,
          formatted_address |-> AddrFormatted, website |-> SiteWwwA]
    ELSE [name |-> NameA, formatted_phone_number |-> PhoneFake, website |-> SiteUpperA]

\* the `result` dicts of a details response: the name and any of the other
\* fields on file (a field the provider leaves out is a missing key), or no
\* field at all
DetailsDicts(pid) ==
    { [k \in ks \cup {"name"} |-> Directory(pid)[k]] : ks \in SUBSET (DOMAIN Directory(pid)) }
    \cup {EmptyDict}

\* what requests.get(...).json() can do in get_details
DetailsOutcomes(pid) ==
    { [kind |-> "transport_error"], [kind |-> "json", data |-> [status |-> "NOT_FOUND"]] }
    \cup { [kind |-> "json", data |-> [status |-> "OK", result |-> d]] : d \in DetailsDicts(pid) }

\* what requests.get(...).json() can do in nearby_search, with at most n places
SearchOutcomes(n, mayPage) ==
    { [kind |-> "transport_error"],
      [kind |-> "json", data |-> [status |-> "OVER_QUERY_LIMIT"]],
      [kind |-> "json", data |-> [status |-> "REQUEST_DENIED"]],
      [kind |-> "json", data |-> [status |-> "ZERO_RESULTS", results |-> <<>>]] }
    \cup { [kind |-> "json", data |-> [status |-> "OK", results |-> page]] :
             page \in SeqsUpTo(Places, n) }
    \cup { [kind |-> "json", data |-> [status |-> "OK", results |-> page, next_page_token |-> "tok"]] :
             page \in IF mayPage THEN SeqsUpTo(Places, n) ELSE {} }

\* ------------------------------------------------------------- PlacesClient
\* the variant without the try/except: a transport error propagates
NearbySearchUnguarded(outcome, quota) ==
    IF outcome.kind = "transport_error"
    THEN [raised |-> TRUE, message |-> "ConnectionError", quota |-> quota, resp |-> EmptyDict]
    ELSE [raised |-> FALSE, message |-> "",
          quota |-> (quota \/ Get(outcome.data, "status", "") = "OVER_QUERY_LIMIT"),
          resp |-> outcome.data]

\* PlacesClient.nearby_search: the dict returned and the new quota_exceeded
nearby_search(outcome, quota) ==
    IF outcome.kind = "transport_error"
    THEN [raised |-> FALSE, message |-> "", quota |-> quota,
          resp |-> [status |-> "ERROR", results |-> <<>>]]
    ELSE [raised |-> FALSE, message |-> "",
          quota |-> (quota \/ Get(outcome.data, "status", "") = "OVER_QUERY_LIMIT"),
          resp |-> outcome.data]

\* PlacesClient.get_details
get_details(outcome) ==
    IF outcome.kind = "transport_error"
    THEN [status |-> "ERROR", result |-> EmptyDict]
    ELSE outcome.data

\* ---------------------------------------------------------- DiscoveryEngine
NoStats ==
    [total_searched |-> 0, duplicates |-> 0, fake_phones |-> 0, fake_emails |-> 0,
     validation_failed |-> 0, emails_scraped |-> 0]

Bump(st, k) == [st EXCEPT ![k] = @ + 1]

\* the keys of the self.businesses dict, an insertion-ordered dict kept as the
\* sequence of its values
Ids(bs) == {bs[i].google_place_id : i \in DOMAIN bs}

\* self.businesses[b.google_place_id] = b
DictSet(bs, b) ==
    IF b.google_place_id \in Ids(bs)
    THEN [i \in DOMAIN bs |-> IF bs[i].google_place_id = b.google_place_id THEN b ELSE bs[i]]
    ELSE Append(bs, b)

\* the variant that never fills the domain index
RegisterDomainNever(sd, d, pid) == sd

\* d = self._get_domain(b.website); if d: self.seen_domains[d] = pid
RegisterDomain(sd, d, pid) ==
    IF d = <<>> THEN sd
    ELSE [x \in DOMAIN sd \cup {d} |-> IF x = d THEN pid ELSE sd[x]]

\* the variant with the threshold one lower
BelowThresholdOne(score) == score < 1

\* if b.data_completeness_score < 2
BelowThreshold(score) == score < 2

\* the website a details response carries
WebsiteOf(resp) == Get(Get(resp, "result", EmptyDict), "website", <<>>)

\* the variant that rejects a duplicate without counting it
CountDuplicateNever(st) == st

\* self.stats['duplicates'] += 1
CountDuplicate(st) == Bump(st, "duplicates")

\* the variant that counts a fake phone and keeps it
KeepFakePhone(fake, phone) == phone

\* if is_fake_phone(b.phone_number): ...; b.phone_number = ""
ClearFakePhone(fake, phone) == IF fake THEN <<>> ELSE phone

\* DiscoveryEngine._process_place: resp is what get_details returns for the
\* place, scraped what scrape_email returns for its website.  The result says
\* whether a Business is returned (b), the new counters, and which external
\* calls were made.
_process_place(place, keyword, resp, scraped, bs, sd, st) ==
    LET pid == Get(place, "place_id", "")
        details == Get(resp, "result", EmptyDict)
        website == Get(details, "website", <<>>)
        domain == GetDomain(website)
        phone == Get(details, "formatted_phone_number", <<>>)
        fakePhone == is_fake_phone(phone)
        st1 == IF fakePhone THEN Bump(st, "fake_phones") ELSE st
        gotEmail == website # <<>> /\ scraped # <<>>
        st2 == IF gotEmail THEN Bump(st1, "emails_scraped") ELSE st1
        email == IF gotEmail THEN scraped ELSE <<>>
        fakeEmail == is_fake_email(email)
        st3 == IF fakeEmail THEN Bump(st2, "fake_emails") ELSE st2
        b0 == [business_name |-> Get(details, "name", Get(place, "name", <<>>)),
               phone_number |-> ClearFakePhone(fakePhone, phone),
               email |-> IF fakeEmail THEN <<>> ELSE email,
               website |-> website,
               address |-> Get(details, "formatted_address", Get(place, "vicinity", <<>>)),
               search_keyword |-> keyword,
               google_place_id |-> pid,
               email_source |-> IF gotEmail /\ ~fakeEmail THEN "website_scrape" ELSE "",
               data_completeness_score |-> 0]
        b == [b0 EXCEPT !.data_completeness_score = calc_completeness(b0)]
    IN IF pid = "" \/ pid \in Ids(bs)
       THEN [accepted |-> FALSE, stats |-> CountDuplicate(st),
             details |-> FALSE, scrape |-> FALSE, b |-> b0]
       ELSE IF domain # <<>> /\ domain \in DOMAIN sd
       THEN [accepted |-> FALSE, stats |-> CountDuplicate(st),
             details |-> TRUE, scrape |-> FALSE, b |-> b0]
       ELSE IF BelowThreshold(b.data_completeness_score)
       THEN [accepted |-> FALSE, stats |-> Bump(st3, "validation_failed"),
             details |-> TRUE, scrape |-> website # <<>>, b |-> b]
       ELSE [accepted |-> TRUE, stats |-> st3,
             details |-> TRUE, scrape |-> website # <<>>, b |-> b]

\* the sort key (-score, name.lower()) compared case-sensitively
KeyLessCaseSensitive(a, b) ==
    \/ a.data_completeness_score > b.data_completeness_score
    \/ /\ a.data_completeness_score = b.data_completeness_score
       /\ StrLess(a.business_name, b.business_name)

\* key(a) < key(b) for key = (-score, business_name.lower())
KeyLess(a, b) ==
    \/ a.data_completeness_score > b.data_completeness_score
    \/ /\ a.data_completeness_score = b.data_completeness_score
       /\ StrLess(Lower(a.business_name), Lower(b.business_name))

\* list.sort is stable: x goes after every element whose key is not greater
RECURSIVE InsertSorted(_, _)
InsertSorted(sorted, x) ==
    IF sorted = <<>> THEN <<x>>
    ELSE IF KeyLess(x, Head(sorted)) THEN <<x>> \o sorted
    ELSE <<Head(sorted)>> \o InsertSorted(Tail(sorted), x)

RECURSIVE SortFrom(_, _)
SortFrom(sorted, rest) ==
    IF rest = <<>> THEN sorted ELSE SortFrom(InsertSorted(sorted, Head(rest)), Tail(rest))

\* DiscoveryEngine._sorted
_sorted(bs) == SortFrom(<<>>, bs)

\* STATE_CITIES.get(state, DEFAULT_CITIES.get(state, []))
LookupCities(state) == Get(STATE_CITIES, state, Get(DEFAULT_CITIES, state, <<>>))

\* the variant that falls back to the first region of the reference data
ResolveCitiesFallback(config) ==
    LET explicit == IF config.geographyMode = "city" THEN config.cities ELSE <<>>
    IN IF explicit # <<>> THEN explicit
       ELSE IF LookupCities(config.state) # <<>> THEN LookupCities(config.state)
       ELSE STATE_CITIES.NV

\* the cities run() iterates over
ResolveCities(config) ==
    LET explicit == IF config.geographyMode = "city" THEN config.cities ELSE <<>>
    IN IF explicit # <<>> THEN explicit ELSE LookupCities(config.state)

\* ---- binary64 arithmetic, for int((step / total_steps) * 100).  The 53
\* digits of a significand are kept in three limbs of 13, 20 and 20 binary
\* digits, so that every intermediate value is below 2^31; this needs a
\* divisor below 2^11.
Limb == 2 ^ 20

\* the zero digits of n / d (0 < n < d) between the binary point and its first
\* 1 digit
RECURSIVE LeadingZeros(_, _)
LeadingZeros(n, d) == IF 2 * n >= d THEN 0 ELSE 1 + LeadingZeros(2 * n, d)

RECURSIVE BitLength(_)
BitLength(v) == IF v = 0 THEN 0 ELSE 1 + BitLength(v \div 2)

\* n / d in binary64 for 0 < n < d, by long division and rounding to nearest,
\* ties to even: the value is (hi * 2^40 + mid * 2^20 + lo) * 2^(-scale)
FloatDiv(n, d) ==
    LET z == LeadingZeros(n, d)
        r0 == n * (2 ^ z)
        hi == (r0 * (2 ^ 13)) \div d
        r1 == (r0 * (2 ^ 13)) % d
        mid == (r1 * Limb) \div d
        r2 == (r1 * Limb) % d
        lo == (r2 * Limb) \div d
        r3 == (r2 * Limb) % d
        up == 2 * r3 > d \/ (2 * r3 = d /\ lo % 2 = 1)
        lo1 == lo + (IF up THEN 1 ELSE 0)
        mid1 == mid + (lo1 \div Limb)
    IN [hi |-> hi + (mid1 \div Limb), mid |-> mid1 % Limb, lo |-> lo1 % Limb,
        scale |-> z + 53]

\* int(x * 100) for the binary64 x: the exact product, rounded to 53 digits
\* (nearest, ties to even), truncated to an integer
IntTimes100(x) ==
    LET p0 == x.lo * 100
        p1 == x.mid * 100 + (p0 \div Limb)
        p2 == x.hi * 100 + (p1 \div Limb)
        low == p0 % Limb
        drop == (40 + BitLength(p2)) - 53
        dropped == low % (2 ^ drop)
        half == 2 ^ (drop - 1)
        up == dropped > half \/ (dropped = half /\ (low \div (2 ^ drop)) % 2 = 1)
        low1 == (low - dropped) + (IF up THEN 2 ^ drop ELSE 0)
        q1 == (p1 % Limb) + (low1 \div Limb)
        q2 == p2 + (q1 \div Limb)
    IN q2 \div (2 ^ (x.scale - 40))

\* the variant in exact integer arithmetic
ProgressExact(n, total) == (n * 100) \div total

\* int((step / total_steps) * 100), for 0 < n <= total
Progress(n, total) == IF n = total THEN 100 ELSE IntTimes100(FloatDiv(n, total))

\* the variant with > for >=
TargetReachedStrict(count, min_results) == count > min_results

\* len(self.businesses) >= min_results
TargetReached(count, min_results) == count >= min_results

\* the variant that walks the pairs location-major
NextPairLocationMajor(k, l, nK, nL) ==
    IF k < nK THEN [done |-> FALSE, ki |-> k + 1, li |-> l]
    ELSE IF l < nL THEN [done |-> FALSE, ki |-> 1, li |-> l + 1]
    ELSE [done |-> TRUE, ki |-> k, li |-> l]

\* for keyword in keywords: for city_data in cities: the pair after (k, l)
NextPair(k, l, nK, nL) ==
    IF l < nL THEN [done |-> FALSE, ki |-> k, li |-> l + 1]
    ELSE IF k < nK THEN [done |-> FALSE, ki |-> k + 1, li |-> 1]
    ELSE [done |-> TRUE, ki |-> k, li |-> l]

\* -------------------------------------------------------------------- state
VARIABLES
    pc,                  \* where the job's thread of control is
    job_status, job_progress, job_config, job_businesses, job_stats,
    stop_reason, stop_reason_detail, current_keyword, current_city,   \* JobData
    businesses, seen_domains, stats,        \* DiscoveryEngine
    quota_exceeded,                         \* PlacesClient
    cities, ki, li, step,                   \* locals of run()
    page_token, results, next_token,        \* locals of _search_location
    retval,                                 \* what engine.run() returned
    page_no,             \* pages fetched for this location, modulo MaxPages
                         \* (the code keeps no count)
    searched,            \* history: the (keyword, location) pairs searched
    target_seen,         \* history: some pair ended with count >= minResults
    was_running,         \* history: the job has been Running
    exc,                 \* the exception that escaped the engine (its message)
    made,                \* history: the external calls the last step made, and
                         \* the candidate it fetched the details of
    reply,               \* the response of the last step, when it was a handler
    jobs, records, tasks \* the registry with several jobs (SpecRegistry)

job_vars ==
    <<job_status, job_progress, job_config, job_businesses, job_stats,
      stop_reason, stop_reason_detail, current_keyword, current_city>>

engine_vars == <<businesses, seen_domains, stats, quota_exceeded>>

run_vars == <<cities, ki, li, step>>

page_vars == <<page_token, results, next_token, page_no>>

hist_vars == <<searched, target_seen, was_running, exc>>

registry_vars == <<jobs, records, tasks>>

job_run_vars ==
    <<pc, job_vars, engine_vars, run_vars, page_vars, retval, hist_vars, made, reply>>

vars == <<job_run_vars, registry_vars>>

NoBusiness ==
    [business_name |-> <<>>, phone_number |-> <<>>, email |-> <<>>, website |-> <<>>,
     address |-> <<>>, search_keyword |-> "", google_place_id |-> "",
     email_source |-> "", data_completeness_score |-> 0]

NoCalls ==
    [nearby |-> FALSE, details |-> FALSE, scrape |-> FALSE, failed |-> FALSE,
     pid |-> "", website |-> <<>>, accepted |-> FALSE, phone |-> <<>>, b |-> NoBusiness,
     limited |-> FALSE, empty |-> FALSE]

NoReply == [op |-> "none"]

NoConfig == [keywords |-> <<>>, geographyMode |-> "state", state |-> "", cities |-> <<>>, minResults |-> 1]

\* the id start_search gives the job of this specification
JobId == "j1"

\* The registry of SpecRegistry is empty and stays so
NoRegistry == jobs = EmptyDict /\ records = <<>> /\ tasks = <<>>

\* No job in the registry yet
Init ==
    /\ pc = "idle"
    /\ job_status = "none" /\ job_progress = 0 /\ job_config = NoConfig
    /\ job_businesses = <<>> /\ job_stats = EmptyDict
    /\ stop_reason = "" /\ stop_reason_detail = ""
    /\ current_keyword = "" /\ current_city = ""
    /\ businesses = <<>> /\ seen_domains = EmptyDict /\ stats = NoStats
    /\ quota_exceeded = FALSE
    /\ cities = <<>> /\ ki = 1 /\ li = 1 /\ step = 0
    /\ page_token = "" /\ results = <<>> /\ next_token = "" /\ page_no = 0
    /\ retval = <<>>
    /\ searched = <<>> /\ target_seen = FALSE /\ was_running = FALSE /\ exc = ""
    /\ made = NoCalls /\ reply = NoReply
    /\ NoRegistry

\* a step of the job's thread: it calls nothing outside and answers nobody
Internal == made' = NoCalls /\ reply' = NoReply /\ UNCHANGED registry_vars

\* start_search for a request whose config is one of `configs`: JobData(job_id,
\* config) is put in the registry, run_job is queued, the caller gets the id
Submit(configs) ==
    /\ pc = "idle"
    /\ \E c \in configs : job_config' = c
    /\ job_status' = "pending"
    /\ pc' = "queued"
    /\ made' = NoCalls
    /\ reply' = [op |-> "start_search", code |-> 200, jobId |-> JobId, status |-> "started"]
    /\ UNCHANGED <<job_progress, job_businesses, job_stats, stop_reason, stop_reason_detail,
                   current_keyword, current_city>>
    /\ UNCHANGED <<engine_vars, run_vars, page_vars, retval, hist_vars, registry_vars>>

StartSearch == Submit(Configs)

\* run_job, os.getenv('GOOGLE_PLACES_API_KEY') empty: job.status = FAILED
RunJobNoKey ==
    /\ pc = "queued"
    /\ job_status' = "failed"
    /\ pc' = "nokey_reason"
    /\ Internal
    /\ UNCHANGED <<job_progress, job_config, job_businesses, job_stats, stop_reason,
                   stop_reason_detail, current_keyword, current_city>>
    /\ UNCHANGED <<engine_vars, run_vars, page_vars, retval, hist_vars>>

\* run_job without a key: job.stop_reason = "API key not configured"
NoKeyReason ==
    /\ pc = "nokey_reason"
    /\ stop_reason' = "API key not configured"
    /\ pc' = "nokey_detail"
    /\ Internal
    /\ UNCHANGED <<job_status, job_progress, job_config, job_businesses, job_stats,
                   stop_reason_detail, current_keyword, current_city>>
    /\ UNCHANGED <<engine_vars, run_vars, page_vars, retval, hist_vars>>

\* run_job without a key: job.stop_reason_detail = ..., return
NoKeyDetail ==
    /\ pc = "nokey_detail"
    /\ stop_reason_detail' = "Set GOOGLE_PLACES_API_KEY environment variable."
    /\ pc' = "done"
    /\ Internal
    /\ UNCHANGED <<job_status, job_progress, job_config, job_businesses, job_stats,
                   stop_reason, current_keyword, current_city>>
    /\ UNCHANGED <<engine_vars, run_vars, page_vars, retval, hist_vars>>

\* the variant that forgets job.status = RUNNING
RunJobStartSilent ==
    /\ pc = "queued"
    /\ pc' = "run"
    /\ Internal
    /\ UNCHANGED <<job_vars, engine_vars, run_vars, page_vars, retval, hist_vars>>

\* run_job with the key set: status RUNNING, the engine is constructed
RunJobStart ==
    /\ pc = "queued"
    /\ job_status' = "running"
    /\ was_running' = TRUE
    /\ businesses' = <<>> /\ seen_domains' = EmptyDict /\ stats' = NoStats
    /\ quota_exceeded' = FALSE
    /\ pc' = "run"
    /\ Internal
    /\ UNCHANGED <<job_progress, job_config, job_businesses, job_stats, stop_reason,
                   stop_reason_detail, current_keyword, current_city>>
    /\ UNCHANGED <<run_vars, page_vars, retval, searched, target_seen, exc>>

\* the variant whose handler publishes what the engine had accumulated
RunJobExceptKeepsResults ==
    /\ pc = "except"
    /\ job_status' = "failed"
    /\ job_businesses' = _sorted(businesses)
    /\ pc' = "except_reason"
    /\ Internal
    /\ UNCHANGED <<job_progress, job_config, job_stats, stop_reason,
                   stop_reason_detail, current_keyword, current_city>>
    /\ UNCHANGED <<engine_vars, run_vars, page_vars, retval, hist_vars>>

\* run_job's except clause: job.status = FAILED
RunJobExcept ==
    /\ pc = "except"
    /\ job_status' = "failed"
    /\ pc' = "except_reason"
    /\ Internal
    /\ UNCHANGED <<job_progress, job_config, job_businesses, job_stats, stop_reason,
                   stop_reason_detail, current_keyword, current_city>>
    /\ UNCHANGED <<engine_vars, run_vars, page_vars, retval, hist_vars>>

\* run_job's except clause: job.stop_reason = "Error"
ExceptReason ==
    /\ pc = "except_reason"
    /\ stop_reason' = "Error"
    /\ pc' = "except_detail"
    /\ Internal
    /\ UNCHANGED <<job_status, job_progress, job_config, job_businesses, job_stats,
                   stop_reason_detail, current_keyword, current_city>>
    /\ UNCHANGED <<engine_vars, run_vars, page_vars, retval, hist_vars>>

\* run_job's except clause: job.stop_reason_detail = str(e)
ExceptDetail ==
    /\ pc = "except_detail"
    /\ stop_reason_detail' = exc
    /\ pc' = "done"
    /\ Internal
    /\ UNCHANGED <<job_status, job_progress, job_config, job_businesses, job_stats,
                   stop_reason, current_keyword, current_city>>
    /\ UNCHANGED <<engine_vars, run_vars, page_vars, retval, hist_vars>>

\* DiscoveryEngine.run, no city resolved
RunNoCities ==
    /\ pc = "run"
    /\ ResolveCities(job_config) = <<>>
    /\ stop_reason' = "No cities configured"
    /\ stop_reason_detail' = "No cities for state " \o job_config.state \o "."
    /\ retval' = <<>>
    /\ pc' = "ret"
    /\ Internal
    /\ UNCHANGED <<job_status, job_progress, job_config, job_businesses, job_stats,
                   current_keyword, current_city>>
    /\ UNCHANGED <<engine_vars, run_vars, page_vars, hist_vars>>

\* DiscoveryEngine.run up to the first iteration of the loops
RunBegin ==
    /\ pc = "run"
    /\ ResolveCities(job_config) # <<>>
    /\ cities' = ResolveCities(job_config)
    /\ ki' = 1 /\ li' = 1 /\ step' = 0
    /\ pc' = "pair"
    /\ Internal
    /\ UNCHANGED <<job_vars, engine_vars, page_vars, retval, hist_vars>>

\* run(): current keyword and city are recorded and _search_location is
\* entered; city_data['lat'] raises KeyError for a city dict without
\* coordinates, which run_job catches
BeginPair ==
    /\ pc = "pair"
    /\ current_keyword' = job_config.keywords[ki]
    /\ current_city' = cities[li].city
    /\ searched' = Append(searched, <<ki, li>>)
    /\ Internal
    /\ IF cities[li].coords
       THEN pc' = "search" /\ exc' = exc
       ELSE pc' = "except" /\ exc' = KeyErrorLat
    /\ page_token' = ""
    /\ UNCHANGED <<job_status, job_progress, job_config, job_businesses, job_stats,
                   stop_reason, stop_reason_detail>>
    /\ UNCHANGED <<engine_vars, run_vars, results, next_token, page_no, retval>>
    /\ UNCHANGED <<target_seen, was_running>>

\* _search_location after the for loop over a page: the next page, or done
PageDone(token) ==
    IF token = ""
    THEN pc' = "pairEnd" /\ page_token' = "" /\ page_no' = 0
    ELSE pc' = "search" /\ page_token' = token /\ page_no' = (page_no + 1) % MaxPages

\* _search_location: one nearby_search call, whose requests.get(...).json()
\* does one of `outcomes`, and the branch on its status
Search(outcomes) ==
    /\ pc = "search"
    /\ \E outcome \in outcomes :
        LET r == nearby_search(outcome, quota_exceeded)
            status == Get(r.resp, "status", "ERROR")
            page == Get(r.resp, "results", <<>>)
            token == Get(r.resp, "next_page_token", "")
            ok == status \in {"OK", "ZERO_RESULTS"}
        IN /\ made' = [NoCalls EXCEPT !.nearby = TRUE, !.failed = ~ok,
                                      !.limited = (status = "OVER_QUERY_LIMIT")]
           /\ IF r.raised
              THEN /\ pc' = "except" /\ exc' = r.message
                   /\ UNCHANGED <<quota_exceeded, page_vars>>
              ELSE /\ quota_exceeded' = r.quota
                   /\ exc' = exc
                   /\ IF status = "OVER_QUERY_LIMIT"
                      THEN \* time.sleep(60); if self.client.quota_exceeded: return; continue
                           /\ pc' = IF r.quota THEN "pairEnd" ELSE "search"
                           /\ page_no' = IF r.quota THEN 0 ELSE page_no
                           /\ page_token' = IF r.quota THEN "" ELSE page_token
                           /\ UNCHANGED <<results, next_token>>
                      ELSE IF ~ok
                      THEN /\ pc' = "pairEnd" /\ page_no' = 0 /\ page_token' = ""
                           /\ UNCHANGED <<results, next_token>>
                      ELSE IF page = <<>>
                      THEN PageDone(token) /\ UNCHANGED <<results, next_token>>
                      ELSE /\ results' = page
                           /\ next_token' = token
                           /\ pc' = "place"
                           /\ UNCHANGED <<page_token, page_no>>
    /\ reply' = NoReply
    /\ UNCHANGED <<job_vars, businesses, seen_domains, stats, run_vars, retval>>
    /\ UNCHANGED <<searched, target_seen, was_running, registry_vars>>

\* the provider has at most MaxPlaces results for a job, on pages of at most
\* MaxPageLen, at most MaxPages pages for a location
NearbySearch ==
    Search(SearchOutcomes(Min2(MaxPageLen, MaxPlaces - stats.total_searched),
                          page_no + 1 < MaxPages))

\* _search_location: one iteration of `for place in resp.get('results', [])`
ProcessPlace ==
    /\ pc = "place"
    /\ results # <<>>
    /\ LET place == Head(results)
           pid == Get(place, "place_id", "")
       IN \E dout \in DetailsOutcomes(pid) :
            LET resp == get_details(dout)
            IN \E found \in PagesFound(WebsiteOf(resp)) :
               \E scraped \in scrape_email(WebsiteOf(resp), found) :
                 LET r == _process_place(place, job_config.keywords[ki], resp, scraped,
                                         businesses, seen_domains,
                                         Bump(stats, "total_searched"))
                 IN /\ stats' = r.stats
                    /\ businesses' = IF r.accepted THEN DictSet(businesses, r.b) ELSE businesses
                    /\ seen_domains' = IF r.accepted
                                       THEN RegisterDomain(seen_domains, GetDomain(r.b.website), pid)
                                       ELSE seen_domains
                    /\ made' = IF r.details
                                THEN [nearby |-> FALSE, details |-> TRUE, scrape |-> r.scrape,
                                      failed |-> Get(resp, "status", "") # "OK",
                                      pid |-> pid, website |-> WebsiteOf(resp),
                                      accepted |-> r.accepted,
                                      phone |-> Get(Get(resp, "result", EmptyDict),
                                                    "formatted_phone_number", <<>>),
                                      b |-> r.b, limited |-> FALSE,
                                      empty |-> DOMAIN Get(resp, "result", EmptyDict) = {}]
                                ELSE [NoCalls EXCEPT !.pid = pid]
    /\ IF Tail(results) = <<>>
       THEN PageDone(next_token) /\ results' = <<>> /\ next_token' = ""
       ELSE pc' = "place" /\ results' = Tail(results) /\ UNCHANGED <<next_token, page_token, page_no>>
    /\ reply' = NoReply
    /\ UNCHANGED <<job_vars, quota_exceeded, run_vars, retval>>
    /\ UNCHANGED <<searched, target_seen, was_running, exc, registry_vars>>

\* {**self.stats, 'valid': len(self.businesses)}
StatsWithValid(st, n) == [k \in DOMAIN st \cup {"valid"} |-> IF k = "valid" THEN n ELSE st[k]]

\* run(): the statements after _search_location returns, up to the next
\* iteration or the return
PairEnd ==
    /\ pc = "pairEnd"
    /\ step' = step + 1
    /\ job_progress' = Progress(step + 1, Len(job_config.keywords) * Len(cities))
    /\ job_stats' = StatsWithValid(stats, Len(businesses))
    /\ target_seen' = (target_seen \/ Len(businesses) >= job_config.minResults)
    /\ Internal
    /\ LET next == NextPair(ki, li, Len(job_config.keywords), Len(cities))
       IN IF TargetReached(Len(businesses), job_config.minResults)
          THEN /\ stop_reason' = "Target reached"
               /\ stop_reason_detail' = get_stop_reason_detail("Target reached")
               /\ retval' = _sorted(businesses)
               /\ pc' = "ret"
               /\ UNCHANGED <<ki, li>>
          ELSE IF next.done
          THEN /\ stop_reason' = "All locations exhausted"
               /\ stop_reason_detail' = get_stop_reason_detail("All locations exhausted")
               /\ retval' = _sorted(businesses)
               /\ pc' = "ret"
               /\ UNCHANGED <<ki, li>>
          ELSE /\ ki' = next.ki /\ li' = next.li
               /\ pc' = "pair"
               /\ UNCHANGED <<stop_reason, stop_reason_detail, retval>>
    /\ UNCHANGED <<job_status, job_config, job_businesses, current_keyword, current_city>>
    /\ UNCHANGED <<engine_vars, cities, page_vars>>
    /\ UNCHANGED <<searched, was_running, exc>>

\* run_job: job.businesses = engine.run()
AssignBusinesses ==
    /\ pc = "ret"
    /\ job_businesses' = retval
    /\ pc' = "ret_stats"
    /\ Internal
    /\ UNCHANGED <<job_status, job_progress, job_config, job_stats, stop_reason,
                   stop_reason_detail, current_keyword, current_city>>
    /\ UNCHANGED <<engine_vars, run_vars, page_vars, retval, hist_vars>>

\* run_job: job.stats = engine.stats
AssignStats ==
    /\ pc = "ret_stats"
    /\ job_stats' = stats
    /\ pc' = "ret_status"
    /\ Internal
    /\ UNCHANGED <<job_status, job_progress, job_config, job_businesses, stop_reason,
                   stop_reason_detail, current_keyword, current_city>>
    /\ UNCHANGED <<engine_vars, run_vars, page_vars, retval, hist_vars>>

\* run_job: job.status = JobStatus.COMPLETED
SetCompleted ==
    /\ pc = "ret_status"
    /\ job_status' = "completed"
    /\ pc' = "ret_progress"
    /\ Internal
    /\ UNCHANGED <<job_progress, job_config, job_businesses, job_stats, stop_reason,
                   stop_reason_detail, current_keyword, current_city>>
    /\ UNCHANGED <<engine_vars, run_vars, page_vars, retval, hist_vars>>

\* run_job: job.progress = 100
SetProgress ==
    /\ pc = "ret_progress"
    /\ job_progress' = 100
    /\ pc' = "done"
    /\ Internal
    /\ UNCHANGED <<job_status, job_config, job_businesses, job_stats, stop_reason,
                   stop_reason_detail, current_keyword, current_city>>
    /\ UNCHANGED <<engine_vars, run_vars, page_vars, retval, hist_vars>>

\* ---------------------------------------------------------------- readers
PREVIEW_LIMIT == 10

\* the ids a caller asks for: the job's, and one that was never given out
RequestIds == {JobId, "j0"}

\* the `preview` query parameter of get_results (ge=1, le=100)
Previews == {1, PREVIEW_LIMIT}

\* jobs.get(job_id)
Registered(job_id) == job_id = JobId /\ job_status # "none"

\* get_results: the HTTPException, or the dict returned (the column
\* statesCovered, which counts a field this model leaves out, is not kept)
get_results(job_id, preview) ==
    IF ~Registered(job_id)
    THEN [op |-> "get_results", job_id |-> job_id, code |-> 404, detail |-> "Job not found"]
    ELSE LET total == Len(job_businesses)
             preview_count == Min2(preview, total)
             With(f) == Cardinality({i \in DOMAIN job_businesses : job_businesses[i][f] # <<>>})
         IN [op |-> "get_results", job_id |-> job_id, code |-> 200,
             status |-> job_status, progress |-> job_progress,
             totalValid |-> total, previewCount |-> preview_count,
             preview |-> Take(job_businesses, preview_count),
             counts |-> [withPhone |-> With("phone_number"), withEmail |-> With("email"),
                         withWebsite |-> With("website"),
                         totalSearched |-> Get(job_stats, "total_searched", 0),
                         duplicatesRemoved |-> Get(job_stats, "duplicates", 0),
                         fakePhonesFiltered |-> Get(job_stats, "fake_phones", 0),
                         fakeEmailsFiltered |-> Get(job_stats, "fake_emails", 0),
                         validationFailed |-> Get(job_stats, "validation_failed", 0),
                         emailsScraped |-> Get(job_stats, "emails_scraped", 0)],
             stopReason |-> stop_reason, stopReasonDetail |-> stop_reason_detail,
             lowResultWarning |-> (job_status = "completed" /\ total < 10),
             currentKeyword |-> current_keyword, currentCity |-> current_city]

\* Business.to_csv_row in the order of CSV_HEADERS (without the City and State
\* columns, which hold a field this model leaves out)
to_csv_row(b) ==
    <<b.business_name, b.phone_number, b.email, b.website, b.address,
      b.search_keyword, b.google_place_id, b.email_source, b.data_completeness_score>>

\* the variant without the status check
DownloadCsvAnyStatus(job_id) ==
    IF ~Registered(job_id)
    THEN [op |-> "download_csv", job_id |-> job_id, code |-> 404, detail |-> "Job not found"]
    ELSE [op |-> "download_csv", job_id |-> job_id, code |-> 200,
          rows |-> [i \in DOMAIN job_businesses |-> to_csv_row(job_businesses[i])],
          total_rows |-> Len(job_businesses)]

\* download_csv: the HTTPException, or the rows written after the header
download_csv(job_id) ==
    IF ~Registered(job_id)
    THEN [op |-> "download_csv", job_id |-> job_id, code |-> 404, detail |-> "Job not found"]
    ELSE IF job_status # "completed"
    THEN [op |-> "download_csv", job_id |-> job_id, code |-> 400,
          detail |-> "Job not completed (" \o job_status \o ")"]
    ELSE [op |-> "download_csv", job_id |-> job_id, code |-> 200,
          rows |-> [i \in DOMAIN job_businesses |-> to_csv_row(job_businesses[i])],
          total_rows |-> Len(job_businesses)]

\* GET /api/results/{job_id}, served while the job's thread runs
GetResults ==
    /\ \E job_id \in RequestIds, preview \in Previews : reply' = get_results(job_id, preview)
    /\ made' = NoCalls
    /\ UNCHANGED <<pc, job_vars, engine_vars, run_vars, page_vars, retval, hist_vars,
                   registry_vars>>

\* GET /api/results/{job_id}/csv, served while the job's thread runs
DownloadCsv ==
    /\ \E job_id \in RequestIds : reply' = download_csv(job_id)
    /\ made' = NoCalls
    /\ UNCHANGED <<pc, job_vars, engine_vars, run_vars, page_vars, retval, hist_vars,
                   registry_vars>>

\* the steps of the job's background thread
JobNext ==
    \/ RunJobNoKey
    \/ NoKeyReason
    \/ NoKeyDetail
    \/ RunJobStart
    \/ RunJobExcept
    \/ ExceptReason
    \/ ExceptDetail
    \/ RunNoCities
    \/ RunBegin
    \/ BeginPair
    \/ NearbySearch
    \/ ProcessPlace
    \/ PairEnd
    \/ AssignBusinesses
    \/ AssignStats
    \/ SetCompleted
    \/ SetProgress

Next ==
    \/ StartSearch
    \/ JobNext

Spec == Init /\ [][Next]_vars

\* The job and its readers, for the requests with one keyword
OneKeywordConfigs == {c \in Configs : Len(c.keywords) = 1}

StartSearchOne == Submit(OneKeywordConfigs)

NextReaders ==
    \/ StartSearchOne
    \/ JobNext
    \/ GetResults
    \/ DownloadCsv

SpecReaders == Init /\ [][NextReaders]_vars

\* The job whose searches all find nothing, for the requests of one to five
\* keywords over the ten cities of Texas
LongKeywords == << "plumber", "roofer", "electrician", "painter", "locksmith" >>

LongConfigs ==
    { [keywords |-> SubSeq(LongKeywords, 1, k), geographyMode |-> "state", state |-> "TX",
       cities |-> <<>>, minResults |-> n] : k \in 1..Len(LongKeywords), n \in 1..MaxMinResults }

StartSearchLong == Submit(LongConfigs)

ZeroOutcomes ==
    { [kind |-> "json", data |-> [status |-> "ZERO_RESULTS", results |-> <<>>]],
      [kind |-> "json", data |-> [status |-> "OK", results |-> <<>>]] }

NearbySearchZero == Search(ZeroOutcomes)

NextZero ==
    \/ StartSearchLong
    \/ RunJobNoKey
    \/ NoKeyReason
    \/ NoKeyDetail
    \/ RunJobStart
    \/ RunBegin
    \/ BeginPair
    \/ NearbySearchZero
    \/ PairEnd
    \/ AssignBusinesses
    \/ AssignStats
    \/ SetCompleted
    \/ SetProgress

SpecZero == Init /\ [][NextZero]_vars

\* The job thread under a provider that may put a next_page_token on every
\* page, however many pages the location has had: _search_location keeps no
\* count of pages.  Every external call returns, and the thread that runs
\* run_job always takes its next step.
NearbySearchPaged ==
    Search(SearchOutcomes(Min2(MaxPageLen, MaxPlaces - stats.total_searched), TRUE))

JobNextPaged == JobNext \/ NearbySearchPaged

NextPaged ==
    \/ StartSearchOne
    \/ JobNextPaged

SpecPaged == Init /\ [][NextPaged]_vars /\ WF_vars(JobNextPaged)

\* ------------------------------------------- the registry with several jobs
\* jobs maps an id to its JobData object; the objects are the elements of
\* `records`, and a reference to one is its index.  tasks are the queued and
\* running calls of run_job, in the order start_search queued them.  An
\* object remembers in `writers` the calls of run_job that have written it.
MaxJobs == 2

\* str(uuid.uuid4())[:8]: eight hexadecimal digits, drawn at random
JobIds == {"1f0e3dad", "9b2c4a67"}

RegistryConfigs == {c \in OneKeywordConfigs : c.geographyMode = "state" /\ c.minResults = 1}

\* JobData(job_id=job_id, config=config)
JobData(job_id, config) ==
    [job_id |-> job_id, status |-> "pending", progress |-> 0, config |-> config,
     businesses |-> <<>>, stats |-> EmptyDict, stop_reason |-> "",
     stop_reason_detail |-> "", writers |-> {}]

\* d[k] = v
DictPut(d, k, v) == [x \in DOMAIN d \cup {k} |-> IF x = k THEN v ELSE d[x]]

\* start_search, whatever id uuid4 gives: the new object is stored under the
\* id, and run_job(job_id, job.config) is queued
StartSearchAny ==
    /\ Len(records) < MaxJobs
    /\ \E job_id \in JobIds, config \in RegistryConfigs :
         /\ records' = Append(records, JobData(job_id, config))
         /\ jobs' = DictPut(jobs, job_id, Len(records) + 1)
         /\ tasks' = Append(tasks, [job_id |-> job_id, config |-> config, job |-> 0,
                                    pc |-> "queued"])
         /\ reply' = [op |-> "start_search", code |-> 200, jobId |-> job_id,
                      status |-> "started"]
    /\ UNCHANGED <<pc, job_vars, engine_vars, run_vars, page_vars, retval, hist_vars, made>>

\* run_job: job = jobs.get(job_id) (the id is in the registry: no entry is
\* ever deleted), and the test of the API key
RunJobEnter(t) ==
    /\ tasks[t].pc = "queued"
    /\ \E key \in BOOLEAN :
         tasks' = [tasks EXCEPT ![t].job = jobs[tasks[t].job_id],
                                ![t].pc = IF key THEN "try_status" ELSE "nokey_status"]
    /\ reply' = NoReply
    /\ UNCHANGED <<jobs, records>>
    /\ UNCHANGED <<pc, job_vars, engine_vars, run_vars, page_vars, retval, hist_vars, made>>

\* run_job's assignments to the fields of job, by position: the field, the
\* value, and the position that follows
RunJobCode(config) ==
    [nokey_status |-> [field |-> "status", value |-> "failed", next |-> "nokey_reason"],
     nokey_reason |-> [field |-> "stop_reason", value |-> "API key not configured",
                       next |-> "nokey_detail"],
     nokey_detail |-> [field |-> "stop_reason_detail",
                       value |-> "Set GOOGLE_PLACES_API_KEY environment variable.",
                       next |-> "returned"],
     try_status |-> [field |-> "status", value |-> "running", next |-> "try_config"],
     try_config |-> [field |-> "config", value |-> config, next |-> "engine"],
     ret_businesses |-> [field |-> "businesses", value |-> <<>>, next |-> "ret_stats"],
     ret_stats |-> [field |-> "stats", value |-> NoStats, next |-> "ret_status"],
     ret_status |-> [field |-> "status", value |-> "completed", next |-> "ret_progress"],
     ret_progress |-> [field |-> "progress", value |-> 100, next |-> "returned"],
     except_status |-> [field |-> "status", value |-> "failed", next |-> "except_reason"],
     except_reason |-> [field |-> "stop_reason", value |-> "Error", next |-> "except_detail"],
     except_detail |-> [field |-> "stop_reason_detail", value |-> KeyErrorLat,
                        next |-> "returned"]]

\* one assignment of run_job to a field of the object it holds
RunJobWrite(t) ==
    /\ tasks[t].pc \in DOMAIN RunJobCode(tasks[t].config)
    /\ LET w == RunJobCode(tasks[t].config)[tasks[t].pc]
       IN /\ records' = [records EXCEPT ![tasks[t].job][w.field] = w.value,
                                        ![tasks[t].job].writers = @ \cup {t}]
          /\ tasks' = [tasks EXCEPT ![t].pc = w.next]
    /\ reply' = NoReply
    /\ UNCHANGED jobs
    /\ UNCHANGED <<pc, job_vars, engine_vars, run_vars, page_vars, retval, hist_vars, made>>

\* engine.run() on the object, as a whole, for searches that find nothing: it
\* returns after it has written the stop reason, or an exception leaves it
EngineRun(t) ==
    /\ tasks[t].pc = "engine"
    /\ \E raised \in BOOLEAN :
         /\ records' = [records EXCEPT
                          ![tasks[t].job].stop_reason =
                              IF raised THEN @
                              ELSE IF ResolveCities(tasks[t].config) = <<>>
                              THEN "No cities configured" ELSE "All locations exhausted",
                          ![tasks[t].job].writers = @ \cup {t}]
         /\ tasks' = [tasks EXCEPT ![t].pc = IF raised THEN "except_status" ELSE "ret_businesses"]
    /\ reply' = NoReply
    /\ UNCHANGED jobs
    /\ UNCHANGED <<pc, job_vars, engine_vars, run_vars, page_vars, retval, hist_vars, made>>

\* the steps of the calls of run_job, each on its own worker thread
RunJobEnters == \E t \in DOMAIN tasks : RunJobEnter(t)

RunJobWrites == \E t \in DOMAIN tasks : RunJobWrite(t)

EngineRuns == \E t \in DOMAIN tasks : EngineRun(t)

NextRegistry ==
    \/ StartSearchAny
    \/ RunJobEnters
    \/ RunJobWrites
    \/ EngineRuns

SpecRegistry == Init /\ [][NextRegistry]_vars

\* ------------------------------------------------------------------ claims
Elems(q) == {q[i] : i \in DOMAIN q}

ReturnedPcs == {"ret", "ret_stats", "ret_status", "ret_progress", "done"}

\* engine.run() returned (no exception escaped, and the key was configured)
RunReturned == pc \in ReturnedPcs /\ was_running /\ exc = ""

TotalSteps == Len(job_config.keywords) * Len(cities)

\* the claims' normalized website domain: the lower-cased host without a
\* leading "www."
HostOf(url) == Netloc(IF Contains(url, <<58, 47, 47>>) THEN url ELSE T_https_slashes \o url)

NormDomain(url) ==
    IF url = <<>> THEN <<>>
    ELSE LET h == Lower(HostOf(url))
         IN IF StartsWith(h, T_www) THEN Drop(h, Len(T_www) + 1) ELSE h

\* C1: when run() returns for a job with at least one location, the stop
\* reason is "Target reached" exactly if some pair ended with at least
\* minResults Businesses, and "All locations exhausted" exactly if every pair,
\* the last included, ended below minResults; once a pair has ended with the
\* target reached, the engine is past its loop and searches no more.
C1_StopReason ==
    /\ (RunReturned /\ cities # <<>>) =>
          /\ (stop_reason = "Target reached") <=> target_seen
          /\ (stop_reason = "All locations exhausted") <=> (~target_seen /\ step = TotalSteps)
    /\ target_seen => (pc \in ReturnedPcs /\ ~made.nearby)

C1_Witness ==
    /\ pc = "done" /\ stop_reason = "Target reached"
    /\ step < TotalSteps /\ Len(businesses) >= job_config.minResults

\* C2: the accumulated set and the published list hold at most one Business
\* per place id and at most one per normalized website domain.
UniqueIn(bs) ==
    \A i, j \in DOMAIN bs :
        i # j => /\ bs[i].google_place_id # bs[j].google_place_id
                 /\ \/ NormDomain(bs[i].website) = <<>>
                    \/ NormDomain(bs[i].website) # NormDomain(bs[j].website)

C2_Unique == UniqueIn(businesses) /\ UniqueIn(job_businesses)

\* a place id that is in the set since an earlier pair has been returned again
C2_Witness ==
    /\ ~made.details /\ made.pid \in Ids(businesses)
    /\ step >= 1 /\ job_stats.valid >= 1

\* the step processed a second candidate right after a first one, with another
\* place id and a website of the same normalized domain
SameDomainPair ==
    /\ made.details /\ made'.details
    /\ made.pid # made'.pid
    /\ NormDomain(made.website) # <<>>
    /\ NormDomain(made.website) = NormDomain(made'.website)

\* after the step, the only Business of that domain is the first-processed
\* candidate, and the step counted one duplicate
FirstKept ==
    /\ {b.google_place_id : b \in {x \in Elems(businesses') :
            NormDomain(x.website) = NormDomain(made.website)}} = {made.pid}
    /\ stats'.duplicates = stats.duplicates + 1

\* C3 as stated: of two candidates with different place ids and the same
\* normalized domain, processed one after the other, exactly the first is a
\* Business and one duplicate is counted.
C3_Original == [][SameDomainPair => FirstKept]_vars

\* C3, amended: the same, provided the first-processed candidate was accepted.
C3_FirstAcceptedKept == [][(SameDomainPair /\ made.accepted) => FirstKept]_vars

C3_Witness ==
    /\ made.details /\ ~made.accepted /\ NormDomain(made.website) # <<>>
    /\ \E b \in Elems(businesses) :
          /\ b.google_place_id # made.pid
          /\ NormDomain(b.website) = NormDomain(made.website)

\* C4: every Business of the accumulated set and of the published list has a
\* score of at least 2, equal to the number of its non-empty contact fields.
NonEmptyCount(b) ==
    Cardinality({f \in {"phone_number", "email", "website", "address"} : b[f] # <<>>})

C4_Threshold ==
    \A b \in Elems(businesses) \cup Elems(job_businesses) :
        /\ b.data_completeness_score >= 2
        /\ b.data_completeness_score = NonEmptyCount(b)

C4_Witness ==
    /\ stats.validation_failed >= 1
    /\ \E b \in Elems(job_businesses) : b.data_completeness_score = 2

\* C5: the list of a Completed job is a permutation of the accumulated set, by
\* descending score and, for equal scores, ascending lower-cased name.
InOrder(a, b) ==
    \/ a.data_completeness_score > b.data_completeness_score
    \/ /\ a.data_completeness_score = b.data_completeness_score
       /\ ~StrLess(Lower(b.business_name), Lower(a.business_name))

C5_Sorted ==
    job_status = "completed" =>
        /\ Len(job_businesses) = Len(businesses)
        /\ Elems(job_businesses) = Elems(businesses)
        /\ \A i, j \in DOMAIN job_businesses :
              i < j => InOrder(job_businesses[i], job_businesses[j])

C5_Witness ==
    /\ job_status = "completed" /\ Len(job_businesses) = 2
    /\ job_businesses # businesses
    /\ job_businesses[1].data_completeness_score = job_businesses[2].data_completeness_score

\* C6 as stated: the status moves only Pending -> Running, Running ->
\* Completed and Running -> Failed (a new job starts Pending).
OriginalMoves ==
    { <<"none", "pending">>, <<"pending", "running">>,
      <<"running", "completed">>, <<"running", "failed">> }

C6_Original == [][job_status' # job_status => <<job_status, job_status'>> \in OriginalMoves]_vars

\* C6, amended: the status moves only Pending -> Running, Running -> Completed,
\* Running -> Failed, and Pending -> Failed when the API key is not configured;
\* Completed and Failed are never left.
C6_Moves ==
    [][job_status' # job_status =>
          \/ <<job_status, job_status'>> \in OriginalMoves
          \/ (<<job_status, job_status'>> = <<"pending", "failed">> /\ RunJobNoKey)]_vars

C6_Witness == job_status = "failed" /\ ~was_running

\* C7: once quota_exceeded is set, no step makes a nearby-search or a details
\* call.
C7_NoCallsAfterQuota == [][quota_exceeded => ~(made'.nearby \/ made'.details)]_vars

\* C8: a job fails only for its configuration (no API key, a city without
\* coordinates), never for what an external call returned; after a failed
\* nearby search the engine is at the end of the same pair, after a failed
\* details lookup it is still in that pair; a run over well-formed cities ends
\* Completed.
C8_CallFailuresNotFatal ==
    /\ job_status = "failed" =>
          \/ ~was_running /\ pc \in {"nokey_reason", "nokey_detail", "done"}
          \/ exc = KeyErrorLat /\ ~cities[li].coords
    /\ made.failed =>
          /\ job_status = "running"
          /\ searched[Len(searched)] = <<ki, li>>
          /\ IF made.nearby THEN pc = "pairEnd" ELSE pc \in {"place", "search", "pairEnd"}
    /\ (pc = "done" /\ was_running /\ \A i \in DOMAIN cities : cities[i].coords) =>
          job_status = "completed"

C8_Witness ==
    /\ job_status = "completed" /\ quota_exceeded
    /\ stop_reason = "All locations exhausted" /\ Len(job_businesses) >= 1

\* C9: the pairs searched are, in order, the first pairs of the keyword-major
\* enumeration of (keyword index, location index).
PairAt(i, nL) == <<((i - 1) \div nL) + 1, ((i - 1) % nL) + 1>>

C9_Order ==
    /\ Len(searched) <= TotalSteps
    /\ \A i \in DOMAIN searched : searched[i] = PairAt(i, Len(cities))

C9_Witness ==
    /\ Len(job_config.keywords) = 2 /\ Len(cities) = 2 /\ Len(searched) = 4

\* C10: after an exception has escaped the engine, run_job ends with the job
\* Failed, stop reason "Error" and the exception's message as detail, and a
\* Failed job publishes no Business.
C10_FailedEmpty ==
    /\ (exc # "" /\ pc = "done") =>
          (job_status = "failed" /\ stop_reason = "Error" /\ stop_reason_detail = exc)
    /\ job_status = "failed" => job_businesses = <<>>

C10_Witness == pc = "done" /\ job_status = "failed" /\ exc # "" /\ Len(businesses) >= 1

\* C11: once a reader has been answered with status Completed or Failed, no
\* step writes a field of the job again.
TerminalStatus == {"completed", "failed"}

C11_Frozen ==
    [][(reply.op = "get_results" /\ reply.code = 200 /\ reply.status \in TerminalStatus)
          => UNCHANGED job_vars]_vars

\* C12: a reader answered with status Completed is given a non-empty stop reason
\* and the final sorted list; and whenever the status is Completed or Failed
\* the stop reason is non-empty.
C12_Published ==
    /\ (reply.op = "get_results" /\ reply.code = 200 /\ reply.status = "completed") =>
          /\ reply.stopReason # ""
          /\ reply.totalValid = Len(businesses)
          /\ reply.preview = Take(_sorted(businesses), reply.previewCount)
    /\ job_status = "completed" => job_businesses = _sorted(businesses)
    /\ job_status \in TerminalStatus => stop_reason # ""

\* C13: download_csv answers 200 exactly for the registered job when it is
\* Completed, and then with one row per Business of the job's list, in the
\* list's order; 404 exactly for an id that is not registered; 400 without
\* rows for a Pending, Running or Failed job.
C13_Export ==
    reply.op = "download_csv" =>
        /\ reply.code = 200 <=> (Registered(reply.job_id) /\ job_status = "completed")
        /\ reply.code = 404 <=> ~Registered(reply.job_id)
        /\ reply.code = 400 <=>
              (Registered(reply.job_id) /\ job_status \in {"pending", "running", "failed"})
        /\ IF reply.code = 200
           THEN /\ Len(reply.rows) = Len(job_businesses)
                /\ \A i \in DOMAIN reply.rows :
                      /\ reply.rows[i][1] = job_businesses[i].business_name
                      /\ reply.rows[i][7] = job_businesses[i].google_place_id
                      /\ reply.rows[i][9] = job_businesses[i].data_completeness_score
           ELSE "rows" \notin DOMAIN reply

C13_Witness ==
    /\ reply.op = "download_csv" /\ reply.code = 200
    /\ Len(reply.rows) = 2 /\ job_businesses # businesses

\* C14: a job left without locations (no city list in city mode, or state
\* mode, and a state that neither STATE_CITIES nor DEFAULT_CITIES has) makes no
\* external call and accumulates nothing; once its engine has returned, the
\* stop reason is "No cities configured" and the list returned is empty.
NoLocations ==
    /\ job_status # "none"
    /\ job_config.geographyMode # "city" \/ job_config.cities = <<>>
    /\ job_config.state \notin (DOMAIN STATE_CITIES \cup DOMAIN DEFAULT_CITIES)

C14_NoCities ==
    NoLocations =>
        /\ searched = <<>> /\ stats = NoStats
        /\ ~made.nearby /\ ~made.details /\ ~made.scrape
        /\ businesses = <<>> /\ job_businesses = <<>>
        /\ pc \notin {"pair", "search", "place", "pairEnd", "except"}
        /\ RunReturned => (stop_reason = "No cities configured" /\ retval = <<>>)

C14_Witness ==
    /\ NoLocations /\ job_config.geographyMode = "city"
    /\ pc = "done" /\ job_status = "completed" /\ stop_reason = "No cities configured"

\* a job with one keyword, one location and minResults = 1
ScenarioJob ==
    Len(job_config.keywords) = 1 /\ Len(cities) = 1 /\ job_config.minResults = 1

\* the step processes the one result of the job's first search page, and the
\* result has a non-fake phone and no website
FirstResultPhoneOnly ==
    /\ ScenarioJob
    /\ pc = "place" /\ page_token = "" /\ stats.total_searched = 0 /\ Len(results) = 1
    /\ made'.details /\ made'.website = <<>>
    /\ made'.phone # <<>> /\ ~is_fake_phone(made'.phone)

\* a scenario job whose run is over, with one result searched and accepted,
\* is Completed with that one Business and stop reason "Target reached"
ScenarioEnd ==
    (ScenarioJob /\ pc = "done" /\ RunReturned
       /\ stats.total_searched = 1 /\ Len(businesses) = 1) =>
          /\ job_status = "completed" /\ stop_reason = "Target reached"
          /\ job_businesses = businesses

\* C15 as stated: in a job with one keyword, one location and minResults = 1
\* whose first page returns one result with a non-fake phone and no website,
\* the result becomes the one Business, and the job completes with it and
\* "Target reached".
C15_Original ==
    /\ [][FirstResultPhoneOnly => (made'.accepted /\ Len(businesses') = 1)]_vars
    /\ []ScenarioEnd

\* C15, amended: the same when the result also has an address (a formatted
\* address or a vicinity) and its page is the only one of the location.
C15_PhoneAndAddress ==
    /\ [][(FirstResultPhoneOnly /\ made'.b.address # <<>> /\ next_token = "") =>
             (made'.accepted /\ businesses' = <<made'.b>> /\ pc' = "pairEnd")]_vars
    /\ []ScenarioEnd

C15_Witness ==
    /\ ScenarioJob /\ pc = "done" /\ job_status = "completed"
    /\ stop_reason = "Target reached" /\ stats.total_searched = 1
    /\ Len(job_businesses) = 1
    /\ job_businesses[1].website = <<>> /\ job_businesses[1].phone_number # <<>>

\* C16: after a nearby search that returned the rate-limit status, the engine
\* calls nearby_search once more for the same location and page.
C16_RetryOnce ==
    [][(made'.nearby /\ made'.limited) =>
          (pc' = "search" /\ page_token' = page_token /\ <<ki', li'>> = <<ki, li>>)]_vars

\* the step fetched the details of a candidate that is no duplicate, and they
\* hold a fake-looking phone
FakePhoneStep ==
    /\ made'.details /\ is_fake_phone(made'.phone)
    /\ stats'.duplicates = stats.duplicates

\* how many of email, website and address the candidate has
OtherFields(b) == Cardinality({f \in {"email", "website", "address"} : b[f] # <<>>})

\* C17: a candidate that reaches validation with a fake-looking phone has the
\* phone emptied and fake_phones counted once; it is accepted when at least two
\* of email, website and address are present, and otherwise rejected with
\* validation_failed counted once; no Business ever holds a fake-looking phone.
C17_FakePhone ==
    /\ [][FakePhoneStep =>
            /\ stats'.fake_phones = stats.fake_phones + 1
            /\ made'.b.phone_number = <<>>
            /\ IF OtherFields(made'.b) >= 2
               THEN /\ made'.accepted
                    /\ businesses' = Append(businesses, made'.b)
                    /\ stats'.validation_failed = stats.validation_failed
               ELSE /\ ~made'.accepted
                    /\ businesses' = businesses
                    /\ stats'.validation_failed = stats.validation_failed + 1]_vars
    /\ [](\A b \in Elems(businesses) \cup Elems(job_businesses) : ~is_fake_phone(b.phone_number))

C17_Witness ==
    /\ made.details /\ is_fake_phone(made.phone) /\ made.accepted
    /\ made.b.phone_number = <<>> /\ made.b \in Elems(businesses)
    /\ stats.fake_phones = 1 /\ stats.validation_failed = 1

\* C18: the job's progress is an integer in 0..100 that never decreases; after
\* the n-th (keyword, location) pair completes it is floor(100 * n / (|K|*|L|));
\* a run whose searches all find nothing ends with progress 100 and the stop
\* reason "All locations exhausted".
C18_Progress ==
    /\ [][job_progress' >= job_progress]_vars
    /\ [](/\ job_progress \in 0..100
          /\ (was_running /\ step >= 1 /\ pc # "done")
                => job_progress = ProgressExact(step, TotalSteps)
          /\ (was_running /\ pc = "done" /\ stats.total_searched = 0 /\ exc = "")
                => (job_progress = 100 /\ stop_reason = "All locations exhausted"))

\* C19: every submitted job eventually reaches Completed or Failed, whatever
\* the search responses are (each call returning), also when they keep
\* returning the rate-limit status or keep supplying a next-page token.
C19_Terminates == (job_status = "pending") ~> (job_status \in TerminalStatus)

\* C20: each job record is written by one engine run only and no two jobs
\* share state: start_search gives every submitted job a registry entry of its
\* own, and a run_job writes only the record that start_search created
\* together with it.
C20_Isolation ==
    /\ \A r \in DOMAIN records : Cardinality(records[r].writers) <= 1
    /\ \A r \in DOMAIN records : jobs[records[r].job_id] = r
    /\ \A t \in DOMAIN tasks : tasks[t].job \in {0, t}

\* the states between two (keyword, location) pairs, and after the last
PairBoundary == pc \in {"pair", "pairEnd", "ret"}

\* C21: at every pair boundary total_searched = duplicates + validation_failed
\* + the number of accumulated Businesses, and no counter ever decreases.
C21_Counters ==
    /\ [][\A k \in DOMAIN stats : stats'[k] >= stats[k]]_vars
    /\ [](PairBoundary =>
            stats.total_searched
              = stats.duplicates + stats.validation_failed + Len(businesses))

\* the second pair ends after one candidate was accepted and one turned down
C21_Witness ==
    /\ pc = "pairEnd" /\ step >= 1
    /\ stats.total_searched = 2 /\ Len(businesses) = 1
    /\ stats.duplicates + stats.validation_failed = 1

\* a step that looked a candidate's details up and got no field: the call
\* failed, the status was not OK, or the result was empty
NoDetailsStep == made'.details /\ made'.empty

\* C22: a candidate whose details lookup fails or returns no fields is never
\* added to the result set: at most its address (the search result's
\* vicinity) is non-empty, its score is at most 1, and it is counted as
\* validation_failed.
C22_NoDetails ==
    [][NoDetailsStep =>
         /\ ~made'.accepted
         /\ businesses' = businesses
         /\ made'.b.phone_number = <<>> /\ made'.b.email = <<>> /\ made'.b.website = <<>>
         /\ made'.b.data_completeness_score <= 1
         /\ stats'.validation_failed = stats.validation_failed + 1
         /\ stats'.duplicates = stats.duplicates]_vars

\* the lookup of a candidate with a vicinity failed: score 1, turned down
C22_Witness ==
    /\ made.details /\ made.empty /\ made.failed
    /\ made.b.address = AddrVicinity
    /\ made.b.data_completeness_score = 1
    /\ ~made.accepted /\ stats.validation_failed >= 1
    /\ made.pid \notin Ids(businesses)

\* a Business with an e-mail got it from the website, and it is not a fake one
ScrapedEmail(b) ==
    b.email # <<>> => (b.email_source = "website_scrape" /\ ~is_fake_email(b.email))

\* C23: the fake_emails counter is 0 in every reachable state, and every
\* Business with a non-empty email has email_source "website_scrape" and an
\* email that is_fake_email does not reject: scrape_email only returns
\* addresses that extract_emails has already filtered.
C23_NoFakeEmail ==
    /\ stats.fake_emails = 0
    /\ Get(job_stats, "fake_emails", 0) = 0
    /\ \A b \in Elems(businesses) \cup Elems(retval) \cup Elems(job_businesses) : ScrapedEmail(b)
    /\ made.details => ScrapedEmail(made.b)

\* a finished job that published a Business with a scraped e-mail
C23_Witness ==
    /\ pc = "done" /\ job_status = "completed"
    /\ stats.emails_scraped >= 1
    /\ \E b \in Elems(job_businesses) :
          b.email = EmailReal /\ b.email_source = "website_scrape"

====
